---- MODULE Spec2Model ----
(***************************************************************************)
(* Model of src/graph/model.rs of ezkl: the graph-to-circuit compiler.     *)
(*   - Model::assign_execution_buckets  (bucket scheduler)                 *)
(*   - Model::configure and its helpers (node configurator, outputs)       *)
(*   - Model::layout / layout_config    (layout engine)                    *)
(* A node is a record [idx, opkind, op, inputs, out_dims, bucket]; an      *)
(* Option<usize> is a sequence of length at most one (<<>> is None).       *)
(***************************************************************************)
EXTENDS Integers, Sequences, FiniteSets, TLC

\* Number of nodes of the maps handed to assign_execution_buckets on its own.
MaxSchedNodes == 3
\* Number of nodes of the graphs that are configured and laid out.
MaxNodes == 4
\* Largest pack_base of the run arguments.
MaxPackBase == 2
\* The lengths of the input lists of Poly and Lookup nodes that are enumerated.
InputLens == {0, 1, 2}

VARIABLES
    nodes,            \* BTreeMap<usize, Node> built by Model::new (bucket unset)
    bucketed_nodes,   \* NodeGraph under construction / Model.nodes
    cursor,           \* position of the running loop (node index, bucket position, entry position)
    pc,               \* which pass is running
    outcome,          \* what the running pass returned: [status, error]
    run_args,         \* RunArgs: [single_lookup, pack_base]
    visibility,       \* VarVisibility: [input, params, output] is_public flags
    outputs,          \* self.model.outputs: sequence of node indices
    configs,          \* configure: `results`, then ModelConfig.configs
    tables,           \* configure: `tables` registry, operator list -> table
    meta,             \* ConstraintSystem: the lookup regions and tables created so far
    range_checks,     \* ModelConfig.range_checks
    packed_outputs,   \* ModelConfig.packed_outputs
    results,          \* layout: `results` map, node index -> tensor
    laid              \* layout: the `outputs` vector and the range checks laid out

schedVars == <<nodes, bucketed_nodes>>
flagVars == <<run_args, visibility, outputs>>
confVars == <<configs, tables, meta, range_checks, packed_outputs>>
vars == <<nodes, bucketed_nodes, cursor, pc, outcome, run_args, visibility, outputs,
          configs, tables, meta, range_checks, packed_outputs, results, laid>>
layoutVars == <<results, laid>>

----------------------------------------------------------------------------
\* Helpers

SeqMax(s) == CHOOSE m \in {s[k] : k \in 1..Len(s)} : \A k \in 1..Len(s) : s[k] <= m
SetMax(S) == CHOOSE m \in S : \A x \in S : x <= m
SetMin(S) == CHOOSE m \in S : \A x \in S : m <= x
Range(s) == {s[k] : k \in 1..Len(s)}
EmptyMap == [x \in {} |-> x]

\* Ascending enumeration of a finite set of naturals (BTreeMap key order).
RECURSIVE Ascending(_)
Ascending(S) == IF S = {} THEN <<>> ELSE <<SetMin(S)>> \o Ascending(S \ {SetMin(S)})

\* Sequences over S of a length in lens.
SeqsOf(S, lens) == UNION {[1..l -> S] : l \in lens}

----------------------------------------------------------------------------
\* Nodes and node maps

None == <<>>
Some(b) == <<b>>

PolyOps == {"Add"}
LookupOps == {"ReLU", "Sigmoid"}

\* The shape the ingester inferred for node i (one dimension of i+1 elements).
OutDims(i) == <<i + 1>>

MkNode(i, kind, op, ins) ==
    [idx |-> i, opkind |-> kind, op |-> op, inputs |-> ins,
     in_dims |-> [k \in 1..Len(ins) |-> OutDims(ins[k])],
     out_dims |-> OutDims(i), bucket |-> None]

\* The nodes index i can hold: kinds, operators lops, inputs over refs.
NodeChoices(i, kinds, lops, refs, lens) ==
    {MkNode(i, k, "", <<>>) : k \in kinds \cap {"Input", "Const", "Unknown"}}
    \cup (IF "Poly" \in kinds
          THEN {MkNode(i, "Poly", o, ins) : o \in PolyOps, ins \in SeqsOf(refs, lens)}
          ELSE {})
    \cup (IF "Lookup" \in kinds
          THEN {MkNode(i, "Lookup", o, ins) : o \in lops, ins \in SeqsOf(refs, lens)}
          ELSE {})

----------------------------------------------------------------------------
\* NodeGraph (super::node): BTreeMap<Option<usize>, BTreeMap<usize, Node>>,
\* a function bucket -> (node index -> Node)

DefaultNode ==
    [idx |-> 0, opkind |-> "Unknown", op |-> "", inputs |-> <<>>,
     in_dims |-> <<>>, out_dims |-> <<>>, bucket |-> None]

\* Order of Option<usize>: None first, then Some(0), Some(1), ...
BucketLeq(a, b) == a = None \/ (b # None /\ a[1] <= b[1])
FirstBucket(B) == CHOOSE b \in B : \A c \in B : BucketLeq(b, c)

\* The keys of bucket map g in ascending order.
RECURSIVE BucketOrder(_)
BucketOrder(B) ==
    IF B = {} THEN <<>> ELSE <<FirstBucket(B)>> \o BucketOrder(B \ {FirstBucket(B)})

\* The buckets of g that hold a node of index idx.
Holders(g, idx) == {b \in DOMAIN g : \E k \in DOMAIN g[b] : g[b][k].idx = idx}

\* NodeGraph::filter: the node of index idx; a node the graph does not hold has no bucket.
filter(g, idx) ==
    IF Holders(g, idx) = {} THEN DefaultNode
    ELSE LET b == FirstBucket(Holders(g, idx))
         IN  g[b][SetMin({k \in DOMAIN g[b] : g[b][k].idx = idx})]

\* NodeGraph::insert(bucket, node_idx, node)
insert(g, b, i, node) ==
    [c \in DOMAIN g \cup {b} |->
        IF c # b THEN g[c]
        ELSE [k \in (IF b \in DOMAIN g THEN DOMAIN g[b] ELSE {}) \cup {i} |->
                IF k = i THEN node ELSE g[b][k]]]

\* Every node index the graph holds.
GraphIdx(g) == UNION {{g[b][k].idx : k \in DOMAIN g[b]} : b \in DOMAIN g}

----------------------------------------------------------------------------
\* Model::assign_execution_buckets

Ok(v) == [status |-> "Ok", error |-> <<>>, value |-> v]
Err(e) == [status |-> "Err", error |-> e, value |-> <<>>]
Panic == [status |-> "Panic", error |-> <<>>, value |-> <<>>]
Running == [status |-> "Running", error |-> <<>>, value |-> <<>>]

\* The inputs of node that pass the filter of line 734.
NonConstInputs(g, node) ==
    SelectSeq(node.inputs, LAMBDA n : filter(g, n).opkind # "Const")

\* A plausible slip of lines 736-741: a dependency without a bucket is skipped.
PrevBucketsSkipUnassigned(g, node) ==
    LET deps == SelectSeq(NonConstInputs(g, node), LAMBDA n : filter(g, n).bucket # None)
    IN  Ok([k \in 1..Len(deps) |-> filter(g, deps[k]).bucket[1]])

\* Lines 730-742: the buckets of the non-constant inputs, or MissingNode for the first
\* one that has none.
PrevBuckets(g, node) ==
    LET deps == NonConstInputs(g, node)
        missing == {k \in 1..Len(deps) : filter(g, deps[k]).bucket = None}
    IN  IF missing # {}
        THEN Err(<<"MissingNode", deps[SetMin(missing)]>>)
        ELSE Ok([k \in 1..Len(deps) |-> filter(g, deps[k]).bucket[1]])

\* A plausible slip of line 748: the bucket of the first input instead of the maximum.
PolyBucketFirst(prev_buckets) ==
    IF prev_buckets = <<>> THEN Panic ELSE Ok(Some(prev_buckets[1]))

\* Line 748: Some(*prev_bucket.unwrap()); unwrap panics when there is no bucket.
PolyBucket(prev_buckets) ==
    IF prev_buckets = <<>> THEN Panic ELSE Ok(Some(SeqMax(prev_buckets)))

\* A plausible slip of line 749: the increment is forgotten.
LookupBucketNoBarrier(prev_buckets) ==
    IF prev_buckets = <<>> THEN Panic ELSE Ok(Some(SeqMax(prev_buckets)))

\* A plausible slip of lines 743 and 749: the bucket after that of the first input
\* instead of the bucket after the maximum.
LookupBucketAfterFirst(prev_buckets) ==
    IF prev_buckets = <<>> THEN Panic ELSE Ok(Some(prev_buckets[1] + 1))

\* Line 749: Some(prev_bucket.unwrap() + 1).
LookupBucket(prev_buckets) ==
    IF prev_buckets = <<>> THEN Panic ELSE Ok(Some(SeqMax(prev_buckets) + 1))

\* One iteration of the loop of lines 729-755: the bucket of node, or the failure.
AssignBucket(g, node) ==
    LET prev == PrevBuckets(g, node)
    IN  IF prev.status # "Ok" THEN prev
        ELSE CASE node.opkind = "Input" -> Ok(Some(0))
               [] node.opkind = "Const" -> Ok(None)
               [] node.opkind = "Poly" -> PolyBucket(prev.value)
               [] node.opkind = "Lookup" -> LookupBucket(prev.value)
               [] OTHER -> Err(<<"WrongMethod", node.idx>>)

\* The whole call on a node map ns, from node i on with graph g built so far.
RECURSIVE AssignFrom(_, _, _)
AssignFrom(ns, g, i) ==
    IF i \notin DOMAIN ns THEN Ok(g)
    ELSE LET r == AssignBucket(g, ns[i])
         IN  IF r.status # "Ok" THEN r
             ELSE LET n == [ns[i] EXCEPT !.bucket = r.value]
                  IN  AssignFrom(ns, insert(g, n.bucket, n.idx, n), i + 1)

assign_execution_buckets(ns) == AssignFrom(ns, EmptyMap, 0)

----------------------------------------------------------------------------
\* Specification of assign_execution_buckets alone, one node at a time

SchedKinds == {"Input", "Const", "Poly", "Lookup", "Unknown"}

\* Node maps with keys 0..n-1 whose node i is drawn from cs[i+1].
RECURSIVE NodeMaps(_)
NodeMaps(cs) ==
    IF cs = <<>> THEN {EmptyMap}
    ELSE LET n == Len(cs)
         IN  {[k \in 0..(n - 1) |-> IF k = n - 1 THEN c ELSE m[k]] :
                 m \in NodeMaps(SubSeq(cs, 1, n - 1)), c \in cs[n]}

\* Node i may name as an input any earlier node and the next one, which has no bucket
\* yet when node i is processed.
SchedChoices(i) ==
    NodeChoices(i, SchedKinds, {"ReLU"},
                {k \in 0..(MaxSchedNodes - 1) : k <= i + 1 /\ k # i}, InputLens)

SchedNodeMaps == NodeMaps([k \in 1..MaxSchedNodes |-> SchedChoices(k - 1)])

NoFlags == [single_lookup |-> FALSE, pack_base |-> 0]
NoVisibility == [input |-> FALSE, params |-> FALSE, output |-> FALSE]

EmptyMeta == [lookups |-> <<>>, tables |-> <<>>, log |-> <<>>, scans |-> <<>>]

IdleConf ==
    /\ configs = EmptyMap
    /\ tables = EmptyMap
    /\ meta = EmptyMeta
    /\ range_checks = <<>>
    /\ packed_outputs = <<>>

\* What layout has handed to the layouter: the `outputs` vector, the range checks with
\* their instance columns, and every region layout invoked so far with its result.
NothingLaid == [outputs |-> <<>>, checks |-> <<>>, regions |-> <<>>]

IdleLayout ==
    /\ results = EmptyMap
    /\ laid = NothingLaid

InitSched ==
    /\ nodes \in SchedNodeMaps
    /\ bucketed_nodes = EmptyMap
    /\ cursor = 0
    /\ pc = "assign"
    /\ outcome = Running
    /\ run_args = NoFlags
    /\ visibility = NoVisibility
    /\ outputs = <<>>
    /\ IdleConf
    /\ IdleLayout

\* Lines 729-755: the iteration for node `cursor`.
AssignNode ==
    /\ pc = "assign"
    /\ cursor \in DOMAIN nodes
    /\ LET r == AssignBucket(bucketed_nodes, nodes[cursor])
       IN  IF r.status = "Ok"
           THEN /\ LET n == [nodes[cursor] EXCEPT !.bucket = r.value]
                   IN  bucketed_nodes' = insert(bucketed_nodes, n.bucket, n.idx, n)
                /\ cursor' = cursor + 1
                /\ UNCHANGED <<pc, outcome>>
           ELSE /\ outcome' = r
                /\ pc' = "assigned"
                /\ UNCHANGED <<bucketed_nodes, cursor>>
    /\ UNCHANGED <<nodes, flagVars, confVars, layoutVars>>

\* Line 757: Ok(bucketed_nodes).
AssignReturn ==
    /\ pc = "assign"
    /\ cursor \notin DOMAIN nodes
    /\ outcome' = Ok(bucketed_nodes)
    /\ pc' = "assigned"
    /\ UNCHANGED <<nodes, bucketed_nodes, cursor, flagVars, confVars, layoutVars>>

NextSched == AssignNode \/ AssignReturn

SpecSched == InitSched /\ [][NextSched]_vars

----------------------------------------------------------------------------
\* Model::configure and its helpers.  A configuration state is a record
\* [configs, tables, meta]: the `results` map, the table registry and the constraint
\* system.  meta.lookups and meta.tables are the heaps of the Rc<RefCell<_>> lookup
\* regions and tables (a region or table is named by its position); meta.log lists
\* the entries in the order they are inserted into `results`; meta.scans lists, for
\* each call of reuse_lookup_conf, the entries its loop visited, in order.

RECURSIVE Product(_)
Product(dims) == IF dims = <<>> THEN 1 ELSE Head(dims) * Product(Tail(dims))

\* vars.advices[k].reshape(dims), vars.fixed[k].reshape(dims)
Advice(k, dims) == [col |-> "advice", idx |-> k, dims |-> dims]
Fixed(k, dims) == [col |-> "fixed", idx |-> k, dims |-> dims]

InputRef(k) == <<"Input", k>>
InterRef(j) == <<"Inter", j>>

\* Map m with key k bound to v (BTreeMap::insert).
MapInsert(m, k, v) == [x \in DOMAIN m \cup {k} |-> IF x = k THEN v ELSE m[x]]

\* The node indices of bucket b of graph g whose kind is in kinds, ascending.
BucketMembers(g, b, kinds) == Ascending({k \in DOMAIN g[b] : g[b][k].opkind \in kinds})

\* Every node of graph g, whatever its bucket.
AllNodes(g) == UNION {{g[b][k] : k \in DOMAIN g[b]} : b \in DOMAIN g}

\* Lines 406-426.
conf_non_op_node(node) ==
    CASE node.opkind = "Const" -> Ok([kind |-> "Const", config |-> <<>>, inputs |-> <<>>])
      [] node.opkind = "Input" -> Ok([kind |-> "Input", config |-> <<>>, inputs |-> <<>>])
      [] node.opkind = "Unknown" -> Panic
      [] OTHER -> Err(<<"WrongMethod", node.idx>>)

\* Result of a lookup configuration: the NodeConfig and the updated registry and heaps.
LookupDone(conf, tbls, m) == [status |-> "Ok", error |-> <<>>, value |-> conf,
                              tables |-> tbls, meta |-> m]

\* A plausible slip of lines 559-575: the registry is not consulted, every node
\* builds its own table.
conf_lookup_no_registry(node, input_len, tbls, m) ==
    LET t == Len(m.tables) + 1
        region == [input |-> Advice(0, <<input_len>>), output |-> Advice(1, <<input_len>>),
                   table |-> t]
    IN  LookupDone([kind |-> "Lookup", config |-> Len(m.lookups) + 1, inputs |-> node.inputs],
                   MapInsert(tbls, <<node.op>>, t),
                   [m EXCEPT !.tables = Append(@, [nonlinearities |-> <<node.op>>]),
                             !.lookups = Append(@, region)])

\* Lines 539-577: a fresh region on advice columns 0 and 1; its table is the registered
\* one for the operator, created and registered when there is none.
conf_lookup(node, input_len, tbls, m) ==
    IF node.opkind # "Lookup"
    THEN [Err(<<"WrongMethod", node.idx>>) EXCEPT !.value = <<>>]
    ELSE LET key == <<node.op>>
             vacant == key \notin DOMAIN tbls
             t == IF vacant THEN Len(m.tables) + 1 ELSE tbls[key]
             region == [input |-> Advice(0, <<input_len>>),
                        output |-> Advice(1, <<input_len>>), table |-> t]
             m1 == IF vacant
                   THEN [m EXCEPT !.tables = Append(@, [nonlinearities |-> key])]
                   ELSE m
         IN  LookupDone([kind |-> "Lookup", config |-> Len(m1.lookups) + 1,
                         inputs |-> node.inputs],
                        IF vacant THEN MapInsert(tbls, key, t) ELSE tbls,
                        [m1 EXCEPT !.lookups = Append(@, region)])

\* Lines 947-984: the summed output sizes of the lookup nodes of operator op.
RECURSIVE SumSizes(_)
SumSizes(S) ==
    IF S = {} THEN 0
    ELSE LET n == CHOOSE x \in S : TRUE IN Product(n.out_dims) + SumSizes(S \ {n})

num_vars_lookup_op(g, op) ==
    LET total == SumSizes({n \in AllNodes(g) : n.opkind = "Lookup" /\ n.op = op})
    IN  <<total, total>>

\* Lines 353-368: the keys of prev_configs, greatest first, whose entry is a lookup
\* region with a table of exactly this operator.
ReuseCandidates(prev_configs, m, op) ==
    {k \in DOMAIN prev_configs :
        /\ prev_configs[k].kind = "Lookup"
        /\ m.tables[m.lookups[prev_configs[k].config].table].nonlinearities = <<op>>}

\* A plausible slip of lines 353-368: the scan never matches, every node allocates.
reuse_lookup_conf_never(g, i, node, prev_configs, tbls, m) ==
    conf_lookup(node, num_vars_lookup_op(g, node.op)[1], tbls, m)

Reverse(s) == [k \in 1..Len(s) |-> s[Len(s) + 1 - k]]

\* A plausible slip of line 353: the map is walked forwards.
ScanOrderAscending(prev_configs) == Ascending(DOMAIN prev_configs)

\* Line 353: prev_configs.iter().rev(), the keys of the map from the greatest down.
ScanOrder(prev_configs) == Reverse(Ascending(DOMAIN prev_configs))

\* Lines 353-368: the entries the loop visits, up to the first one in cands (where it
\* breaks), or all of them.
Visited(order, cands) ==
    LET hits == {k \in 1..Len(order) : order[k] \in cands}
    IN  IF hits = {} THEN order ELSE SubSeq(order, 1, SetMin(hits))

\* Lines 340-381.
reuse_lookup_conf(g, i, node, prev_configs, tbls, m) ==
    IF node.opkind # "Lookup"
    THEN [Err(<<"OpMismatch", i>>) EXCEPT !.value = <<>>]
    ELSE LET cands == ReuseCandidates(prev_configs, m, node.op)
             visited == Visited(ScanOrder(prev_configs), cands)
             m1 == [m EXCEPT !.scans = Append(@, [node |-> i, visited |-> visited])]
         IN  IF cands # {}
             THEN LookupDone([kind |-> "Lookup",
                              config |-> prev_configs[visited[Len(visited)]].config,
                              inputs |-> node.inputs], tbls, m1)
             ELSE conf_lookup(node, num_vars_lookup_op(g, node.op)[1], tbls, m1)

\* Lines 465-488: the external inputs of the group, first occurrence first, each with
\* its column.  refs are the input references still to visit, acc the slots so far.
RECURSIVE InputsToLayer(_, _, _, _, _, _)
InputsToLayer(g, members, params_public, refs, acc, idxs) ==
    IF refs = <<>> THEN [slots |-> acc, advice_idx |-> idxs[1], fixed_idx |-> idxs[2]]
    ELSE LET f == filter(g, Head(refs))
             seen == {acc[k][1] : k \in 1..Len(acc)}
         IN  IF f.idx \in members \/ f.idx \in seen
             THEN InputsToLayer(g, members, params_public, Tail(refs), acc, idxs)
             ELSE IF f.opkind = "Const" /\ params_public
             THEN InputsToLayer(g, members, params_public, Tail(refs),
                                Append(acc, <<f.idx, Fixed(idxs[2], f.out_dims)>>),
                                <<idxs[1], idxs[2] + 1>>)
             ELSE InputsToLayer(g, members, params_public, Tail(refs),
                                Append(acc, <<f.idx, Advice(idxs[1], f.out_dims)>>),
                                <<idxs[1] + 1, idxs[2]>>)

\* A plausible slip of line 503: the node index is taken for the slot.
SlotPositionIsIndex(slots, idx) == idx

\* The position of node idx among the slots, from 0 (line 503).
SlotPosition(slots, idx) == SetMin({k \in 1..Len(slots) : slots[k][1] = idx}) - 1

\* Lines 498-510: the input_order of one member; counter is inter_counter on entry.
RECURSIVE InputOrder(_, _, _, _, _)
InputOrder(members, slots, refs, counter, acc) ==
    IF refs = <<>> THEN [order |-> acc, counter |-> counter]
    ELSE IF Head(refs) \notin members
         THEN InputOrder(members, slots, Tail(refs), counter,
                         Append(acc, InputRef(SlotPosition(slots, Head(refs)))))
         ELSE InputOrder(members, slots, Tail(refs), counter + 1,
                         Append(acc, InterRef(counter)))

\* Lines 494-516: one PolyNode per member, in ascending member order.
RECURSIVE FusedNodes(_, _, _, _, _, _)
FusedNodes(g, members, slots, todo, counter, acc) ==
    IF todo = <<>> THEN acc
    ELSE LET e == filter(g, Head(todo))
             o == InputOrder(members, slots, e.inputs, counter, <<>>)
         IN  FusedNodes(g, members, slots, Tail(todo), o.counter,
                        Append(acc, [op |-> e.op, input_order |-> o.order]))

\* The input references of the members ms, member after member (lines 469-472).
RECURSIVE FlatRefs(_, _)
FlatRefs(g, ms) ==
    IF ms = <<>> THEN <<>> ELSE filter(g, Head(ms)).inputs \o FlatRefs(g, Tail(ms))

\* A plausible slip of line 492: the output takes the advice column after as many
\* columns as there are external inputs, fixed ones included.
conf_poly_ops_output_after_all(g, ms, params_public) ==
    LET members == Range(ms)
        bad == {k \in 1..Len(ms) : filter(g, ms[k]).opkind # "Poly"}
    IN  IF bad # {} THEN Err(<<"WrongMethod", ms[SetMin(bad)]>>)
        ELSE LET alloc == InputsToLayer(g, members, params_public, FlatRefs(g, ms),
                                        <<>>, <<0, 0>>)
                 slots == alloc.slots
                 output == Advice(Len(slots), filter(g, SetMax(members)).out_dims)
                 fused_nodes == FusedNodes(g, members, slots, ms, 0, <<>>)
             IN  Ok([kind |-> "Poly",
                     config |-> [inputs |-> [k \in 1..Len(slots) |-> slots[k][2]],
                                 output |-> output,
                                 nodes |-> fused_nodes],
                     inputs |-> [k \in 1..Len(slots) |-> slots[k][1]]])

\* Lines 436-530; ms are the keys of `nodes`, ascending.
conf_poly_ops(g, ms, params_public) ==
    LET members == Range(ms)
        bad == {k \in 1..Len(ms) : filter(g, ms[k]).opkind # "Poly"}
    IN  IF bad # {} THEN Err(<<"WrongMethod", ms[SetMin(bad)]>>)
        ELSE LET alloc == InputsToLayer(g, members, params_public, FlatRefs(g, ms),
                                        <<>>, <<0, 0>>)
                 slots == alloc.slots
                 output == Advice(alloc.advice_idx, filter(g, SetMax(members)).out_dims)
                 fused_nodes == FusedNodes(g, members, slots, ms, 0, <<>>)
             IN  Ok([kind |-> "Poly",
                     config |-> [inputs |-> [k \in 1..Len(slots) |-> slots[k][2]],
                                 output |-> output,
                                 nodes |-> fused_nodes],
                     inputs |-> [k \in 1..Len(slots) |-> slots[k][1]]])

\* The state of a configure call: `results` (configs), `tables`, the constraint system.
ConfState(c, t, m) == [status |-> "Ok", error |-> <<>>, configs |-> c, tables |-> t, meta |-> m]
ConfFailed(cs, r) == [cs EXCEPT !.status = r.status, !.error = r.error]

\* results.insert(i, config), noted in the log.
Record(cs, i, config) ==
    [cs EXCEPT !.configs = MapInsert(@, i, config),
               !.meta.log = Append(@, <<config.kind, i>>)]

\* Lines 245-250: the Input and Const nodes of the bucket, ascending.
RECURSIVE ConfNonOps(_, _, _)
ConfNonOps(g, todo, cs) ==
    IF todo = <<>> \/ cs.status # "Ok" THEN cs
    ELSE LET r == conf_non_op_node(filter(g, Head(todo)))
         IN  IF r.status # "Ok" THEN ConfFailed(cs, r)
             ELSE ConfNonOps(g, Tail(todo), Record(cs, Head(todo), r.value))

\* Lines 259-265: the configuration of one lookup node, by the single_lookup flag.
LookupConf(g, single_lookup, i, node, cs) ==
    IF ~single_lookup
    THEN conf_lookup(node, Product(node.in_dims[1]), cs.tables, cs.meta)
    ELSE reuse_lookup_conf(g, i, node, cs.configs, cs.tables, cs.meta)

\* Lines 257-268: the Lookup nodes of the bucket, ascending.
RECURSIVE ConfLookups(_, _, _, _)
ConfLookups(g, single_lookup, todo, cs) ==
    IF todo = <<>> \/ cs.status # "Ok" THEN cs
    ELSE LET i == Head(todo)
             r == LookupConf(g, single_lookup, i, filter(g, i), cs)
         IN  IF r.status # "Ok" THEN ConfFailed(cs, r)
             ELSE ConfLookups(g, single_lookup, Tail(todo),
                              Record([cs EXCEPT !.tables = r.tables, !.meta = r.meta],
                                     i, r.value))

\* A plausible slip of line 278: the group is keyed by its smallest member.
PolyKeyMin(ms) == SetMin(Range(ms))

\* Line 278: **poly_ops.keys().max().unwrap()
PolyKey(ms) == SetMax(Range(ms))

\* Lines 271-286: the Poly nodes of the bucket, fused into one entry.
ConfPolys(g, params_public, ms, cs) ==
    IF ms = <<>> \/ cs.status # "Ok" THEN cs
    ELSE LET r == conf_poly_ops(g, ms, params_public)
         IN  IF r.status # "Ok" THEN ConfFailed(cs, r)
             ELSE Record(cs, PolyKey(ms), r.value)

\* A plausible slip of lines 245-286: the Poly group is configured before the Lookup
\* nodes of the bucket.
ConfBucketPolysFirst(g, b, ra, vis, cs) ==
    LET cs1 == ConfNonOps(g, BucketMembers(g, b, {"Input", "Const"}), cs)
        cs2 == ConfPolys(g, vis.params, BucketMembers(g, b, {"Poly"}), cs1)
    IN  ConfLookups(g, ra.single_lookup, BucketMembers(g, b, {"Lookup"}), cs2)

\* Lines 239-287: one iteration of the loop over the buckets.
ConfBucket(g, b, ra, vis, cs) ==
    LET cs1 == ConfNonOps(g, BucketMembers(g, b, {"Input", "Const"}), cs)
        cs2 == ConfLookups(g, ra.single_lookup, BucketMembers(g, b, {"Lookup"}), cs1)
    IN  ConfPolys(g, vis.params, BucketMembers(g, b, {"Poly"}), cs2)

\* Lines 805-811.
output_shapes(g, outs) == [k \in 1..Len(outs) |-> filter(g, outs[k]).out_dims]

\* Lines 315-338.
pack_outputs(ra, shapes) ==
    [k \in 1..Len(shapes) |->
        [inputs |-> <<Advice(0, shapes[k])>>,
         output |-> Advice(1, <<1>>),
         nodes |-> <<[op |-> <<"Pack", ra.pack_base>>, input_order |-> <<InputRef(0)>>]>>]]

\* Lines 383-404.
range_check_outputs(shapes) ==
    [k \in 1..Len(shapes) |->
        [input |-> Advice(0, shapes[k]), output |-> Advice(1, shapes[k])]]

\* A plausible slip of lines 291-292: packing is decided without looking at the
\* visibility of the outputs.
PostProcessIgnoreVisibility(g, outs, ra, vis) ==
    IF ra.pack_base > 1
    THEN [packed_outputs |-> pack_outputs(ra, output_shapes(g, outs)),
          range_checks |->
              range_check_outputs([k \in 1..Len(outs) |-> <<1>>])]
    ELSE [packed_outputs |-> <<>>,
          range_checks |-> range_check_outputs(output_shapes(g, outs))]

\* Lines 289-304: the packing and range-check regions of the outputs.
PostProcess(g, outs, ra, vis) ==
    IF vis.output
    THEN IF ra.pack_base > 1
         THEN [packed_outputs |-> pack_outputs(ra, output_shapes(g, outs)),
               range_checks |->
                   range_check_outputs([k \in 1..Len(output_shapes(g, outs)) |-> <<1>>])]
         ELSE [packed_outputs |-> <<>>,
               range_checks |-> range_check_outputs(output_shapes(g, outs))]
    ELSE [packed_outputs |-> <<>>, range_checks |-> <<>>]

\* The loop of lines 239-287 from bucket position k on.
RECURSIVE ConfFrom(_, _, _, _, _)
ConfFrom(g, ra, vis, k, cs) ==
    IF k > Len(BucketOrder(DOMAIN g)) \/ cs.status # "Ok" THEN cs
    ELSE ConfFrom(g, ra, vis, k + 1, ConfBucket(g, BucketOrder(DOMAIN g)[k], ra, vis, cs))

\* Lines 230-313: the ModelConfig that configure returns.
configure(g, outs, ra, vis) ==
    LET cs == ConfFrom(g, ra, vis, 1, ConfState(EmptyMap, EmptyMap, EmptyMeta))
        post == PostProcess(g, outs, ra, vis)
    IN  IF cs.status # "Ok" THEN cs
        ELSE [cs EXCEPT !.status = "Ok"] @@
             [range_checks |-> post.range_checks, packed_outputs |-> post.packed_outputs]

----------------------------------------------------------------------------
\* The shape queries that size the variable pool (lines 821-1107).  A list of sizes
\* is a sequence; position k of the sequence is index k - 1 of the Vec.

Max(a, b) == IF a >= b THEN a ELSE b

\* Itertools::unique: the first occurrence of every element, in order.
RECURSIVE Unique(_)
Unique(seq) ==
    IF seq = <<>> THEN <<>>
    ELSE LET init == Unique(SubSeq(seq, 1, Len(seq) - 1))
         IN  IF seq[Len(seq)] \in Range(init) THEN init ELSE Append(init, seq[Len(seq)])

\* The loops of lines 840-848, 870-878, 917-925 and 1037-1044: entry i is pushed when
\* the list is too short and raised to the maximum otherwise.
MergeSizes(maximum_sizes, sizes) ==
    [k \in 1..Max(Len(maximum_sizes), Len(sizes)) |->
        IF k > Len(maximum_sizes) THEN sizes[k]
        ELSE IF k > Len(sizes) THEN maximum_sizes[k]
        ELSE Max(maximum_sizes[k], sizes[k])]

\* Lines 885-891, 932-938 and 1047-1053: the output size is pushed when the list has
\* as many entries as there are inputs, and merged at that index otherwise.
MergeOutput(maximum_sizes, n_inputs, output_size) ==
    IF n_inputs = Len(maximum_sizes) THEN Append(maximum_sizes, output_size)
    ELSE [maximum_sizes EXCEPT ![n_inputs + 1] = Max(@, output_size)]

\* The references of the Poly nodes of bucket b to nodes outside the group that
\* satisfy keep, each once (lines 830-838, 862-868, 907-915).
GroupInputs(g, b, keep(_)) ==
    LET ms == BucketMembers(g, b, {"Poly"})
    IN  Unique(SelectSeq(FlatRefs(g, ms), LAMBDA id : id \notin Range(ms) /\ keep(id)))

SizesOf(g, ids) == [k \in 1..Len(ids) |-> Product(filter(g, ids[k]).out_dims)]

\* One bucket of max_params_poly, max_vars_and_params_poly and max_vars_poly: the
\* inputs that satisfy keep, and the output of the largest member when with_output.
PolyBucketSizes(g, b, keep(_), with_output, maximum_sizes) ==
    LET ms == BucketMembers(g, b, {"Poly"})
        inputs == GroupInputs(g, b, keep)
        merged == MergeSizes(maximum_sizes, SizesOf(g, inputs))
    IN  IF with_output /\ ms # <<>>
        THEN MergeOutput(merged, Len(inputs),
                         Product(filter(g, SetMax(Range(ms))).out_dims))
        ELSE merged

RECURSIVE PolySizesFrom(_, _, _, _, _)
PolySizesFrom(g, bs, keep(_), with_output, maximum_sizes) ==
    IF bs = <<>> THEN maximum_sizes
    ELSE PolySizesFrom(g, Tail(bs), keep, with_output,
                       PolyBucketSizes(g, Head(bs), keep, with_output, maximum_sizes))

\* Lines 822-851.
max_params_poly(g) ==
    PolySizesFrom(g, BucketOrder(DOMAIN g), LAMBDA id : filter(g, id).opkind = "Const",
                  FALSE, <<>>)

\* Lines 854-896.
max_vars_and_params_poly(g) ==
    PolySizesFrom(g, BucketOrder(DOMAIN g), LAMBDA id : TRUE, TRUE, <<>>)

\* Lines 899-944.
max_vars_poly(g) ==
    PolySizesFrom(g, BucketOrder(DOMAIN g), LAMBDA id : filter(g, id).opkind # "Const",
                  TRUE, <<>>)

\* Lines 987-1024: the greatest, over the lookup operators, of the summed sizes.
num_vars_lookup(g) ==
    LET ops == {n.op : n \in {x \in AllNodes(g) : x.opkind = "Lookup"}}
        total == IF ops = {} THEN 0 ELSE SetMax({num_vars_lookup_op(g, op)[1] : op \in ops})
    IN  <<total, total>>

\* Lines 1035-1054: the Lookup nodes ns (ascending) of one bucket.
RECURSIVE LookupSizesFrom(_, _, _)
LookupSizesFrom(g, ns, maximum_sizes) ==
    IF ns = <<>> THEN maximum_sizes
    ELSE LET n == filter(g, Head(ns))
             merged == MergeSizes(maximum_sizes,
                                  [j \in 1..Len(n.in_dims) |-> Product(n.in_dims[j])])
         IN  LookupSizesFrom(g, Tail(ns),
                             MergeOutput(merged, Len(n.in_dims), Product(n.out_dims)))

RECURSIVE MaxVarsLookupFrom(_, _, _)
MaxVarsLookupFrom(g, bs, maximum_sizes) ==
    IF bs = <<>> THEN maximum_sizes
    ELSE MaxVarsLookupFrom(g, Tail(bs),
             LookupSizesFrom(g, BucketMembers(g, Head(bs), {"Lookup"}), maximum_sizes))

\* Lines 1027-1057.
max_vars_lookup(g) == MaxVarsLookupFrom(g, BucketOrder(DOMAIN g), <<>>)

\* Lines 1073-1098.
advice_shapes(g, ra, vis) ==
    LET max_lookup_sizes == IF ra.single_lookup THEN num_vars_lookup(g)
                            ELSE max_vars_lookup(g)
        max_poly_sizes == IF vis.params THEN max_vars_poly(g)
                          ELSE max_vars_and_params_poly(g)
    IN  MergeSizes(max_poly_sizes, max_lookup_sizes)

\* Lines 1101-1107.
fixed_shapes(g, vis) == IF vis.params THEN max_params_poly(g) ELSE <<>>

----------------------------------------------------------------------------
\* Specification of configure on a scheduled graph, one bucket at a time

\* The nodes index i can hold in a graph the ingester delivers: inputs name earlier
\* nodes, a Lookup has one input.
ConfChoices(i) ==
    NodeChoices(i, {"Input", "Const"}, {}, {}, {})
    \cup NodeChoices(i, {"Poly"}, {}, 0..(i - 1), InputLens \ {0})
    \cup NodeChoices(i, {"Lookup"}, LookupOps, 0..(i - 1), {1})

\* The node maps of MaxNodes nodes that assign_execution_buckets accepts.
ConfNodeMaps ==
    {ns \in NodeMaps([k \in 1..MaxNodes |-> ConfChoices(k - 1)]) :
        assign_execution_buckets(ns).status = "Ok"}

\* self.model.outputs: the last node, or the last two.
OutputChoices(ns) ==
    LET n == Cardinality(DOMAIN ns) IN {<<n - 1>>, <<n - 2, n - 1>>}

RunArgs == [single_lookup : BOOLEAN, pack_base : 0..MaxPackBase]
\* configure reads the params and output flags only.
ConfVisibilities == [input : {FALSE}, params : BOOLEAN, output : BOOLEAN]

\* The state after Model::new (lines 93-120).
ModelNew(graphs, args, visibilities) ==
    /\ nodes \in graphs
    /\ bucketed_nodes = assign_execution_buckets(nodes).value
    /\ run_args \in args
    /\ visibility \in visibilities
    /\ outputs \in OutputChoices(nodes)

InitConf ==
    /\ ModelNew(ConfNodeMaps, RunArgs, ConfVisibilities)
    /\ cursor = 1
    /\ pc = "configure"
    /\ outcome = Running
    /\ IdleConf
    /\ IdleLayout

\* Lines 239-287: the iteration for the bucket at position `cursor`.
ConfigureBucket ==
    /\ pc = "configure"
    /\ cursor <= Len(BucketOrder(DOMAIN bucketed_nodes))
    /\ LET cs == ConfBucket(bucketed_nodes, BucketOrder(DOMAIN bucketed_nodes)[cursor],
                            run_args, visibility, ConfState(configs, tables, meta))
       IN  /\ configs' = cs.configs
           /\ tables' = cs.tables
           /\ meta' = cs.meta
           /\ IF cs.status = "Ok"
              THEN cursor' = cursor + 1 /\ UNCHANGED <<pc, outcome>>
              ELSE /\ outcome' = [status |-> cs.status, error |-> cs.error, value |-> <<>>]
                   /\ pc' = "configured"
                   /\ UNCHANGED cursor
    /\ UNCHANGED <<schedVars, flagVars, range_checks, packed_outputs, layoutVars>>

\* Lines 289-313: the output regions, then Ok(ModelConfig).
ConfigureOutputs ==
    /\ pc = "configure"
    /\ cursor > Len(BucketOrder(DOMAIN bucketed_nodes))
    /\ LET post == PostProcess(bucketed_nodes, outputs, run_args, visibility)
       IN  /\ range_checks' = post.range_checks
           /\ packed_outputs' = post.packed_outputs
    /\ outcome' = Ok(<<>>)
    /\ pc' = "configured"
    /\ UNCHANGED <<schedVars, flagVars, cursor, configs, tables, meta, layoutVars>>

NextConf == ConfigureBucket \/ ConfigureOutputs

SpecConf == InitConf /\ [][NextConf]_vars

----------------------------------------------------------------------------
\* Model::layout and Model::layout_config.  A tensor is a record: a supplied input
\* [from |-> "input", at |-> i], an instance column [from |-> "instance", at |-> i],
\* an embedded constant, or the output of a region with the tensors it was given.

InputTensor(i) == [from |-> "input", at |-> i, of |-> <<>>]
Instance(i) == [from |-> "instance", at |-> i, of |-> <<>>]
ConstTensor(i) == [from |-> "const", at |-> i, of |-> <<>>]
RegionOutput(kind, key, values) == [from |-> kind, at |-> key, of |-> values]

\* The number of tensors the caller supplies: one per Input node of the model.
NumInputs(g) == Cardinality({n \in AllNodes(g) : n.opkind = "Input"})

\* Lines 593-600: the results map seeded with the n supplied inputs, under 0..n-1.
SeedResults(n, input_public) ==
    [i \in 0..(n - 1) |-> IF input_public THEN Instance(i) ELSE InputTensor(i)]

\* self.model.inputs: the Input nodes of the graph, ascending.
ModelInputs(g) == Ascending({n.idx : n \in {x \in AllNodes(g) : x.opkind = "Input"}})

\* Lines 790-796.
input_shapes(g) == [k \in 1..Len(ModelInputs(g)) |-> filter(g, ModelInputs(g)[k]).out_dims]

\* Lines 1060-1070.
instance_shapes(g, outs, vis) ==
    (IF vis.input THEN input_shapes(g) ELSE <<>>)
    \o (IF vis.output THEN output_shapes(g, outs) ELSE <<>>)

\* The references of a configuration entry that layout_config looks up in the results
\* map (lines 683 and 701).
Lookups(g, config) ==
    CASE config.kind = "Poly" ->
            SelectSeq(config.inputs, LAMBDA i : filter(g, i).opkind # "Const")
      [] config.kind = "Lookup" -> IF Len(config.inputs) = 1 THEN config.inputs ELSE <<>>
      [] OTHER -> <<>>

\* A plausible slip of lines 695-697: the number of inputs of a Lookup entry is not
\* checked, the first one is used.
layout_config_first_input(g, res, key, config, region_fails) ==
    CASE config.kind = "Poly" ->
            IF \E k \in 1..Len(Lookups(g, config)) : Lookups(g, config)[k] \notin DOMAIN res
            THEN Panic
            ELSE IF region_fails THEN Err(<<"RegionLayout", key>>)
            ELSE Ok(Some(RegionOutput("poly", key,
                     [k \in 1..Len(config.inputs) |->
                        IF filter(g, config.inputs[k]).opkind = "Const"
                        THEN ConstTensor(config.inputs[k])
                        ELSE res[config.inputs[k]]])))
      [] config.kind = "Lookup" ->
            IF config.inputs[1] \notin DOMAIN res THEN Panic
            ELSE IF region_fails THEN Err(<<"RegionLayout", key>>)
            ELSE Ok(Some(RegionOutput("lookup", key, <<res[config.inputs[1]]>>)))
      [] config.kind \in {"Input", "Const"} -> Ok(None)
      [] OTHER -> Err(<<"UnsupportedOp">>)

\* Lines 658-711: layout_config on one entry; region_fails is whether the layout of
\* the entry's region returns an error.  The value is the Option<ValTensor>.
layout_config(g, res, key, config, region_fails) ==
    CASE config.kind = "Poly" ->
            IF \E k \in 1..Len(Lookups(g, config)) : Lookups(g, config)[k] \notin DOMAIN res
            THEN Panic
            ELSE IF region_fails THEN Err(<<"RegionLayout", key>>)
            ELSE Ok(Some(RegionOutput("poly", key,
                     [k \in 1..Len(config.inputs) |->
                        IF filter(g, config.inputs[k]).opkind = "Const"
                        THEN ConstTensor(config.inputs[k])
                        ELSE res[config.inputs[k]]])))
      [] config.kind = "Lookup" ->
            IF Len(config.inputs) # 1 THEN Err(<<"InvalidLookupInputs">>)
            ELSE IF config.inputs[1] \notin DOMAIN res THEN Panic
            ELSE IF region_fails THEN Err(<<"RegionLayout", key>>)
            ELSE Ok(Some(RegionOutput("lookup", key, <<res[config.inputs[1]]>>)))
      [] config.kind \in {"Input", "Const"} -> Ok(None)
      [] OTHER -> Err(<<"UnsupportedOp">>)

\* Whether layout_config invokes the layout of the entry's region.
InvokesRegion(g, res, config) ==
    /\ config.kind \in {"Poly", "Lookup"}
    /\ config.kind = "Lookup" => Len(config.inputs) = 1
    /\ \A k \in 1..Len(Lookups(g, config)) : Lookups(g, config)[k] \in DOMAIN res

----------------------------------------------------------------------------
\* Specification of layout on a configured model, one entry at a time

\* The nodes index i can hold: as for configure, with one lookup operator and
\* lookups of one or two inputs.
LayoutChoices(i) ==
    NodeChoices(i, {"Input", "Const"}, {}, {}, {})
    \cup NodeChoices(i, {"Poly"}, {}, 0..(i - 1), InputLens \ {0})
    \cup NodeChoices(i, {"Lookup"}, {"ReLU"}, 0..(i - 1), InputLens \ {0})

LayoutNodeMaps ==
    {ns \in NodeMaps([k \in 1..MaxNodes |-> LayoutChoices(k - 1)]) :
        assign_execution_buckets(ns).status = "Ok"}

\* layout reads no run argument; pack_base decides the regions it is handed.
LayoutRunArgs == [single_lookup : {FALSE}, pack_base : 1..MaxPackBase]
\* layout reads the input and output flags only.
LayoutVisibilities == [input : BOOLEAN, params : {FALSE}, output : BOOLEAN]

\* The state after configure has returned the ModelConfig handed to layout.
InitLayout ==
    /\ ModelNew(LayoutNodeMaps, LayoutRunArgs, LayoutVisibilities)
    /\ LET mc == configure(bucketed_nodes, outputs, run_args, visibility)
       IN  /\ configs = mc.configs
           /\ tables = mc.tables
           /\ meta = mc.meta
           /\ range_checks = mc.range_checks
           /\ packed_outputs = mc.packed_outputs
    /\ cursor = 0
    /\ pc = "seed"
    /\ outcome = Running
    /\ IdleLayout

\* The keys of config.configs in ascending order (line 601).
Entries == Ascending(DOMAIN configs)

\* Lines 593-600.
LayoutSeed ==
    /\ pc = "seed"
    /\ results' = SeedResults(NumInputs(bucketed_nodes), visibility.input)
    /\ cursor' = 1
    /\ pc' = "layout"
    /\ UNCHANGED <<schedVars, flagVars, confVars, outcome, laid>>

\* One invocation of a region's layout: the kind of region, its key, "Ok" or "Err".
RegionLayout(kind, key, fails) ==
    [kind |-> kind, at |-> key, result |-> IF fails THEN "Err" ELSE "Ok"]

\* Lines 601-610: the iteration for the entry at position `cursor`.
LayoutEntry ==
    /\ pc = "layout"
    /\ cursor <= Len(Entries)
    /\ \E region_fails \in BOOLEAN :
          /\ region_fails => InvokesRegion(bucketed_nodes, results, configs[Entries[cursor]])
          /\ LET idx == Entries[cursor]
                 r == layout_config(bucketed_nodes, results, idx, configs[idx], region_fails)
             IN  /\ laid' = IF InvokesRegion(bucketed_nodes, results, configs[idx])
                              THEN [laid EXCEPT !.regions =
                                      Append(@, RegionLayout(configs[idx].kind, idx,
                                                             region_fails))]
                              ELSE laid
                 /\ IF r.status = "Ok"
                    THEN /\ results' = IF r.value = None THEN results
                                       ELSE MapInsert(results, idx, r.value[1])
                         /\ cursor' = cursor + 1
                         /\ UNCHANGED <<pc, outcome>>
                    ELSE /\ outcome' = r
                         /\ pc' = "laid"
                         /\ UNCHANGED <<results, cursor>>
    /\ UNCHANGED <<schedVars, flagVars, confVars>>

\* Lines 617-619: the tensors of the model outputs, read from the results map.
CollectOutputs(res, outs) == [k \in 1..Len(outs) |-> res[outs[k]]]

\* Lines 622-629: the first n outputs replaced by their packed form.
PackOutputs(outs, n) ==
    [k \in 1..Len(outs) |->
        IF k <= n THEN RegionOutput("pack", k - 1, <<outs[k]>>) ELSE outs[k]]

\* A plausible slip of lines 637-640: the offset of the public inputs is forgotten.
RangeChecksNoOffset(outs, n_checks, n_inputs, input_public, failed) ==
    LET n == IF n_checks <= Len(outs) THEN n_checks ELSE Len(outs)
    IN  [k \in 1..n |->
            [check |-> k - 1, output |-> outs[k], instance |-> k - 1,
             result |-> IF k \in failed THEN "Err" ELSE "Ok"]]

\* Lines 631-647: range check i (from 0) is laid out on output i and the instance
\* column offset + i; failed are the checks whose layout returns an error.
RangeChecks(outs, n_checks, n_inputs, input_public, failed) ==
    LET offset == IF input_public THEN n_inputs ELSE 0
        n == IF n_checks <= Len(outs) THEN n_checks ELSE Len(outs)
    IN  [k \in 1..n |->
            [check |-> k - 1, output |-> outs[k], instance |-> offset + (k - 1),
             result |-> IF k \in failed THEN "Err" ELSE "Ok"]]

\* Lines 622-624: the layouts of the first n packing regions, the last failing when
\* fails holds.
PackRegions(n, fails) ==
    [k \in 1..n |-> RegionLayout("Pack", k - 1, fails /\ k = n)]

\* Lines 631-647: the layouts of the range-check regions; all are invoked.
CheckRegions(checks) ==
    [k \in 1..Len(checks) |->
        RegionLayout("RangeCheck", checks[k].check, checks[k].result = "Err")]

\* Lines 612-650: the outputs are collected, packed and range checked, and layout
\* returns.  pack_fails is the packing region whose layout fails (0: none), rc_fails
\* the range check whose layout fails (0: none).
LayoutOutputs ==
    /\ pc = "layout"
    /\ cursor > Len(Entries)
    /\ \E pack_fails \in 0..Len(packed_outputs), rc_fails \in 0..Len(range_checks) :
          IF \E k \in 1..Len(outputs) : outputs[k] \notin DOMAIN results
          THEN /\ pack_fails = 0 /\ rc_fails = 0
               /\ outcome' = Panic
               /\ UNCHANGED laid
          ELSE IF pack_fails > 0
          THEN /\ rc_fails = 0
               /\ outcome' = Err(<<"RegionLayout", "pack", pack_fails - 1>>)
               /\ laid' = [laid EXCEPT
                              !.outputs = PackOutputs(CollectOutputs(results, outputs),
                                                      pack_fails - 1),
                              !.regions = @ \o PackRegions(pack_fails, TRUE)]
          ELSE LET outs == PackOutputs(CollectOutputs(results, outputs), Len(packed_outputs))
                   checks == RangeChecks(outs, Len(range_checks), NumInputs(bucketed_nodes),
                                         visibility.input, {rc_fails} \ {0})
               IN  /\ laid' = [outputs |-> outs,
                               checks |-> checks,
                               regions |-> laid.regions
                                             \o PackRegions(Len(packed_outputs), FALSE)
                                             \o CheckRegions(checks)]
                   /\ outcome' = Ok(<<>>)
    /\ pc' = "laid"
    /\ UNCHANGED <<schedVars, flagVars, confVars, cursor, results>>

NextLayout == LayoutSeed \/ LayoutEntry \/ LayoutOutputs

SpecLayout == InitLayout /\ [][NextLayout]_vars

----------------------------------------------------------------------------
\* Properties of assign_execution_buckets (checked under SpecSched)

\* The buckets of g that hold node index i as a key.
BucketsHolding(g, i) == {b \in DOMAIN g : i \in DOMAIN g[b]}
\* The bucket number of node i in g.
BucketOf(g, i) == (CHOOSE b \in BucketsHolding(g, i) : TRUE)[1]
\* The non-constant nodes that node i names as inputs.
NonConstDeps(i) ==
    {d \in Range(nodes[i].inputs) : d \in DOMAIN nodes /\ nodes[d].opkind # "Const"}
\* The inputs of node i that the graph under construction does not hold.
Unassigned(i) == {d \in Range(nodes[i].inputs) : d \notin GraphIdx(bucketed_nodes)}
UnassignedNonConst(i) ==
    {d \in Unassigned(i) : ~(d \in DOMAIN nodes /\ nodes[d].opkind = "Const")}

Accepted == pc = "assigned" /\ outcome.status = "Ok"

\* C1: in every accepted node map each non-constant node is held by exactly one bucket,
\* a numbered one, each constant only by the None bucket, and along every dependency
\* edge between non-constant nodes the bucket does not decrease, and increases when
\* the dependent is a Lookup.
C1_BucketsRespectEdges ==
    Accepted =>
        LET g == outcome.value
        IN  \A i \in DOMAIN nodes :
                IF nodes[i].opkind = "Const"
                THEN BucketsHolding(g, i) = {None}
                ELSE /\ Cardinality(BucketsHolding(g, i)) = 1
                     /\ None \notin BucketsHolding(g, i)
                     /\ \A d \in NonConstDeps(i) :
                            /\ BucketsHolding(g, d) # {}
                            /\ BucketOf(g, d) <= BucketOf(g, i)
                            /\ nodes[i].opkind = "Lookup" => BucketOf(g, d) < BucketOf(g, i)

\* C1 witness: an accepted map with a Poly fed by an Input and a Lookup fed by that Poly.
C1_Witness ==
    /\ Accepted
    /\ \E i, j \in DOMAIN nodes :
          /\ nodes[i].opkind = "Poly" /\ nodes[j].opkind = "Lookup"
          /\ i \in Range(nodes[j].inputs)
          /\ \E d \in NonConstDeps(i) : nodes[d].opkind = "Input"

\* The bucket the rule of section 4.1 gives node i, from the buckets of its inputs in g.
RuleBucket(g, i) ==
    LET bs == {BucketOf(g, d) : d \in NonConstDeps(i)}
    IN  CASE nodes[i].opkind = "Input" -> Some(0)
          [] nodes[i].opkind = "Const" -> None
          [] nodes[i].opkind = "Poly" -> Some(SetMax(bs))
          [] nodes[i].opkind = "Lookup" -> Some(SetMax(bs) + 1)

\* C3: the nodes are processed in ascending index order, and every node processed so
\* far sits in the bucket of the rule: 0 for an Input, none for a Const, the maximum
\* bucket of its non-constant inputs for a Poly, one more than it for a Lookup.
C3_BucketRule ==
    /\ pc = "assign" => GraphIdx(bucketed_nodes) = {i \in DOMAIN nodes : i < cursor}
    /\ \A i \in GraphIdx(bucketed_nodes) :
          /\ BucketsHolding(bucketed_nodes, i) = {RuleBucket(bucketed_nodes, i)}
          /\ bucketed_nodes[RuleBucket(bucketed_nodes, i)][i].bucket
                = RuleBucket(bucketed_nodes, i)

\* C3 witness: a Poly with two inputs in different buckets and a Lookup are scheduled.
C3_Witness ==
    /\ Accepted
    /\ \E i \in DOMAIN nodes :
          /\ nodes[i].opkind = "Poly"
          /\ \E d, e \in NonConstDeps(i) : BucketOf(outcome.value, d) < BucketOf(outcome.value, e)
          /\ nodes[i].inputs[1] \in NonConstDeps(i)
          /\ BucketOf(outcome.value, nodes[i].inputs[1]) < BucketOf(outcome.value, i)

C13_GraphOrError ==
    pc = "assigned" =>
        \/ outcome.status = "Ok" /\ GraphIdx(outcome.value) = DOMAIN nodes
        \/ outcome.status = "Err" /\ outcome.error # <<>>

----------------------------------------------------------------------------
\* Properties of configure (checked under SpecConf)

Configured == pc = "configured" /\ outcome.status = "Ok"

\* The bucket number of node i of the scheduled graph.
NodeBucket(i) == BucketOf(bucketed_nodes, i)
\* The Poly nodes that share the bucket of Poly node i: its fused group.
GroupOf(i) ==
    {j \in DOMAIN nodes : nodes[j].opkind = "Poly" /\ NodeBucket(j) = NodeBucket(i)}
\* The nodes outside the group of i that members of the group name as inputs.
Externals(i) == UNION {Range(nodes[j].inputs) : j \in GroupOf(i)} \ GroupOf(i)
\* All input references of the group of i, member after member in ascending order.
RECURSIVE RefsFrom(_)
RefsFrom(ms) == IF ms = <<>> THEN <<>> ELSE nodes[Head(ms)].inputs \o RefsFrom(Tail(ms))
GroupRefs(i) == RefsFrom(Ascending(GroupOf(i)))
FirstSeen(refs, d) == SetMin({k \in 1..Len(refs) : refs[k] = d})
PolyKeys == {i \in DOMAIN configs : configs[i].kind = "Poly"}

\* C5: in every fused Poly entry there is one instruction per member, in ascending
\* member order; a reference is Input(k) exactly when the node it names is outside
\* the group, and then slot k is that node, and Inter otherwise; the slots are the
\* distinct external nodes, each once, in the order of their first occurrence.
C5_FusedReferences ==
    \A i \in PolyKeys :
        LET ms == Ascending(GroupOf(i))
            slots == configs[i].inputs
            fused == configs[i].config.nodes
        IN  /\ Len(fused) = Len(ms)
            /\ Len(slots) = Cardinality(Externals(i))
            /\ Range(slots) = Externals(i)
            /\ \A a, b \in 1..Len(slots) :
                   a < b => FirstSeen(GroupRefs(i), slots[a]) < FirstSeen(GroupRefs(i), slots[b])
            /\ \A j \in 1..Len(ms) :
                   /\ Len(fused[j].input_order) = Len(nodes[ms[j]].inputs)
                   /\ \A p \in 1..Len(nodes[ms[j]].inputs) :
                          LET ref == fused[j].input_order[p]
                              d == nodes[ms[j]].inputs[p]
                          IN  IF d \in GroupOf(i)
                              THEN ref[1] = "Inter"
                              ELSE /\ ref[1] = "Input"
                                   /\ ref[2] + 1 \in 1..Len(slots)
                                   /\ slots[ref[2] + 1] = d

\* C5 witness: a fused group of two members that both name the same external node,
\* one of them also naming the other member and a second external node first.
C5_Witness ==
    \E i \in PolyKeys :
        /\ Cardinality(GroupOf(i)) = 2
        /\ Cardinality(Externals(i)) = 2
        /\ \E e \in Externals(i) : \A j \in GroupOf(i) : e \in Range(nodes[j].inputs)
        /\ \E j \in GroupOf(i) : Range(nodes[j].inputs) \cap GroupOf(i) # {}
        /\ configs[i].inputs[1] > configs[i].inputs[2]

\* The position, from 0, of member m in the instruction list of its group.
InstructionOf(ms, m) == SetMin({k \in 1..Len(ms) : ms[k] = m}) - 1

\* C15: in every fused instruction list a reference to a member m of the group is
\* Inter(j) with j the position (from 0, members ascending) of the instruction of m,
\* and j is smaller than the position of the referencing instruction.
C15_InterDesignatesMember ==
    \A i \in PolyKeys :
        LET ms == Ascending(GroupOf(i))
            fused == configs[i].config.nodes
        IN  \A j \in 1..Len(ms) :
                \A p \in 1..Len(nodes[ms[j]].inputs) :
                    LET d == nodes[ms[j]].inputs[p]
                    IN  d \in GroupOf(i) =>
                            /\ fused[j].input_order[p] = InterRef(InstructionOf(ms, d))
                            /\ fused[j].input_order[p][2] < j - 1

LookupKeys == {i \in DOMAIN configs : configs[i].kind = "Lookup"}
LookupNodes == {i \in DOMAIN nodes : nodes[i].opkind = "Lookup"}
LookupOpsOf(S) == {nodes[i].op : i \in S}
RegionOf(i) == meta.lookups[configs[i].config]
TableOpsOf(i) == meta.tables[RegionOf(i).table].nonlinearities
\* The lookup nodes in the order they were configured.
LookupLog == SelectSeq(meta.log, LAMBDA e : e[1] = "Lookup")

\* C6: with single_lookup disabled no two tables are built for one operator; the
\* registry names, for each operator configured so far, the table built by the first
\* lookup node of that operator; every lookup node has a region of its own whose
\* table is the registered one; so there are as many tables as distinct operators.
C6_TableDedup ==
    ~run_args.single_lookup =>
        /\ \A t, u \in 1..Len(meta.tables) :
               meta.tables[t].nonlinearities = meta.tables[u].nonlinearities => t = u
        /\ Len(meta.tables) = Cardinality(LookupOpsOf(LookupKeys))
        /\ Len(meta.lookups) = Cardinality(LookupKeys)
        /\ \A i, j \in LookupKeys : configs[i].config = configs[j].config => i = j
        /\ \A i \in LookupKeys :
               /\ TableOpsOf(i) = <<nodes[i].op>>
               /\ tables[<<nodes[i].op>>] = RegionOf(i).table
        /\ \A k \in 1..Len(LookupLog) :
               LET i == LookupLog[k][2]
                   earlier == {l \in 1..(k - 1) : nodes[LookupLog[l][2]].op = nodes[i].op}
               IN  IF earlier = {}
                   THEN RegionOf(i).table
                           = Cardinality(LookupOpsOf({LookupLog[l][2] : l \in 1..k}))
                   ELSE RegionOf(i).table = RegionOf(LookupLog[SetMin(earlier)][2]).table
        /\ Configured => Len(meta.tables) = Cardinality(LookupOpsOf(LookupNodes))

\* C6 witness: configure has finished with single_lookup disabled on a graph with two
\* lookup nodes of one operator and one of another.
C6_Witness ==
    /\ Configured
    /\ ~run_args.single_lookup
    /\ \E i, j, k \in LookupNodes :
          i < j /\ nodes[i].op = nodes[j].op /\ nodes[k].op # nodes[i].op

\* C7: with single_lookup enabled two lookup nodes hold the same region exactly when
\* they have the same operator, the region having been allocated for the first of
\* them configured; so after configure there are as many lookup regions as distinct
\* lookup operators in the graph.
C7_RegionReuse ==
    run_args.single_lookup =>
        /\ \A i, j \in LookupKeys :
               (nodes[i].op = nodes[j].op) <=> (configs[i].config = configs[j].config)
        /\ \A i \in LookupKeys : TableOpsOf(i) = <<nodes[i].op>>
        /\ {configs[i].config : i \in LookupKeys} = 1..Len(meta.lookups)
        /\ \A k \in 1..Len(LookupLog) :
               LET i == LookupLog[k][2]
               IN  configs[i].config
                      = Cardinality(LookupOpsOf({LookupLog[l][2] : l \in 1..k}))
                      \/ \E l \in 1..(k - 1) : nodes[LookupLog[l][2]].op = nodes[i].op
        /\ Configured => Len(meta.lookups) = Cardinality(LookupOpsOf(LookupNodes))

\* C7 witness: configure has finished with single_lookup enabled on a graph with two
\* lookup nodes of one operator, in different buckets, and one of another operator.
C7_Witness ==
    /\ Configured
    /\ run_args.single_lookup
    /\ \E i, j, k \in LookupNodes :
          /\ i < j /\ nodes[i].op = nodes[j].op /\ nodes[k].op # nodes[i].op
          /\ NodeBucket(i) # NodeBucket(j)
          /\ configs[i].config = configs[j].config

PolyNodes == {i \in DOMAIN nodes : nodes[i].opkind = "Poly"}
\* The largest Poly node of each bucket that holds one.
Representatives == {i \in PolyNodes : i = SetMax(GroupOf(i))}

\* C8: after configure the keys of the configuration map are the Input, Const and
\* Lookup nodes and, for each bucket with a Poly node, the largest Poly node of the
\* bucket, whose entry is the one Poly entry of the bucket.
C8_ConfigKeys ==
    Configured =>
        /\ DOMAIN configs = (DOMAIN nodes \ PolyNodes) \cup Representatives
        /\ \A i \in DOMAIN configs : configs[i].kind = nodes[i].opkind
        /\ Cardinality(PolyKeys) = Cardinality({NodeBucket(i) : i \in PolyNodes})
        /\ \A i, j \in PolyKeys : NodeBucket(i) = NodeBucket(j) => i = j

\* C8 witness: configure has finished on a graph with Poly nodes in two buckets.
C8_Witness ==
    /\ Configured
    /\ \E i, j \in PolyNodes : NodeBucket(i) < NodeBucket(j)
    /\ \E i \in DOMAIN nodes : nodes[i].opkind = "Lookup"

OutDimsOf(k) == nodes[outputs[k]].out_dims

\* C9: with private outputs configure makes no packing and no range-check region;
\* with public outputs and pack_base <= 1 no packing region and one range-check
\* region per output on the shape of that output; with public outputs and
\* pack_base > 1 one packing region per output, taking the output in its shape, and
\* one range-check region per output on a shape of one element.
C9_OutputRegions ==
    Configured =>
        CASE ~visibility.output -> packed_outputs = <<>> /\ range_checks = <<>>
          [] visibility.output /\ run_args.pack_base <= 1 ->
                /\ packed_outputs = <<>>
                /\ Len(range_checks) = Len(outputs)
                /\ \A k \in 1..Len(outputs) :
                       /\ range_checks[k].input.dims = OutDimsOf(k)
                       /\ range_checks[k].output.dims = OutDimsOf(k)
          [] visibility.output /\ run_args.pack_base > 1 ->
                /\ Len(packed_outputs) = Len(outputs)
                /\ Len(range_checks) = Len(outputs)
                /\ \A k \in 1..Len(outputs) :
                       /\ packed_outputs[k].inputs[1].dims = OutDimsOf(k)
                       /\ packed_outputs[k].output.dims = <<1>>
                       /\ range_checks[k].input.dims = <<1>>
                       /\ range_checks[k].output.dims = <<1>>

\* C9 witness: configure has finished with public outputs and pack_base > 1 on a
\* graph with two outputs, both of more than one element.
C9_Witness ==
    /\ Configured
    /\ visibility.output
    /\ run_args.pack_base > 1
    /\ Len(outputs) = 2
    /\ \A k \in 1..Len(outputs) : OutDimsOf(k) # <<1>>
    /\ Len(packed_outputs) = 2

\* The bucket (an Option) that holds node i, and its position in the bucket order.
EntryBucket(i) == CHOOSE b \in BucketsHolding(bucketed_nodes, i) : TRUE
BucketPosition(b) ==
    CHOOSE k \in 1..Len(BucketOrder(DOMAIN bucketed_nodes)) :
        BucketOrder(DOMAIN bucketed_nodes)[k] = b
\* The pass of the bucket loop that configures an entry of this kind.
PassOf(kind) == CASE kind \in {"Input", "Const"} -> 1 [] kind = "Lookup" -> 2 [] kind = "Poly" -> 3
\* Log entry x is configured before log entry y by the order of section 4.2.
ConfiguredBefore(x, y) ==
    LET bx == BucketPosition(EntryBucket(x[2]))
        by == BucketPosition(EntryBucket(y[2]))
    IN  \/ bx < by
        \/ bx = by /\ PassOf(x[1]) < PassOf(y[1])
        \/ bx = by /\ PassOf(x[1]) = PassOf(y[1]) /\ x[1] # "Poly" /\ x[2] < y[2]

\* C16: the entries are configured bucket after bucket, the bucket of the constants
\* (None) first and then ascending; within a bucket the Input and Const nodes first,
\* ascending and without a column, then the Lookup nodes, ascending, then the one
\* Poly group; while the loop runs exactly the buckets before the cursor are done.
C16_ConfigureOrder ==
    /\ \A a, b \in 1..Len(meta.log) : a < b => ConfiguredBefore(meta.log[a], meta.log[b])
    /\ \A a \in 1..Len(meta.log) :
           /\ meta.log[a][2] \in DOMAIN configs
           /\ configs[meta.log[a][2]].kind = meta.log[a][1]
           /\ meta.log[a][1] \in {"Input", "Const"} => configs[meta.log[a][2]].config = <<>>
    /\ {meta.log[a][2] : a \in 1..Len(meta.log)} = DOMAIN configs
    /\ \A b \in DOMAIN bucketed_nodes :
           (b = None) => BucketPosition(b) = 1
    /\ \A b, c \in DOMAIN bucketed_nodes :
           (b # None /\ c # None /\ b[1] < c[1]) => BucketPosition(b) < BucketPosition(c)
    /\ (pc = "configure" \/ Configured) =>
           \A i \in DOMAIN nodes \ (PolyNodes \ Representatives) :
               i \in DOMAIN configs <=> BucketPosition(EntryBucket(i)) < cursor

\* C16 witness: configure has finished on a graph with a constant that is configured
\* before an Input node of a smaller index, and a bucket that holds a Lookup node and
\* a Poly node.
C16_Witness ==
    /\ Configured
    /\ \E c, i \in DOMAIN nodes :
          /\ nodes[c].opkind = "Const" /\ nodes[i].opkind = "Input" /\ i < c
          /\ meta.log[1] = <<"Const", c>>
    /\ \E i \in LookupNodes, j \in PolyNodes : NodeBucket(i) = NodeBucket(j)

\* External node d of a group is routed to a fixed column.
FixedRouted(d) == nodes[d].opkind = "Const" /\ visibility.params
\* The number of externals before slot k routed to a fixed (or an advice) column.
PriorRouted(slots, k, fixed) ==
    Cardinality({l \in 1..(k - 1) : FixedRouted(slots[l]) = fixed})

\* C17: in every fused Poly entry the k-th external takes the next fixed column if it is
\* a constant and the parameters are public, and the next advice column otherwise,
\* in its own shape; the output takes the advice column whose index is the number of
\* externals on advice columns, in the shape of the largest member of the group; no
\* two externals share a column and the output column is no external's column.
C17_ColumnSlots ==
    \A i \in PolyKeys :
        LET slots == configs[i].inputs
            cols == configs[i].config.inputs
            output == configs[i].config.output
        IN  /\ Len(cols) = Len(slots)
            /\ \A k \in 1..Len(slots) :
                   cols[k] = IF FixedRouted(slots[k])
                             THEN Fixed(PriorRouted(slots, k, TRUE), nodes[slots[k]].out_dims)
                             ELSE Advice(PriorRouted(slots, k, FALSE), nodes[slots[k]].out_dims)
            /\ output = Advice(PriorRouted(slots, Len(slots) + 1, FALSE),
                               nodes[SetMax(GroupOf(i))].out_dims)
            /\ \A a, b \in 1..Len(cols) :
                   (cols[a].col = cols[b].col /\ cols[a].idx = cols[b].idx) => a = b
            /\ \A k \in 1..Len(cols) :
                   cols[k].col = "advice" => cols[k].idx # output.idx

\* C17 witness: with public parameters a group of two members has a constant external
\* on fixed column 0 after an external on advice column 0, and its output is on advice
\* column 1.
C17_Witness ==
    /\ visibility.params
    /\ \E i \in PolyKeys :
          /\ Cardinality(GroupOf(i)) = 2
          /\ Len(configs[i].inputs) = 2
          /\ nodes[configs[i].inputs[2]].opkind = "Const"
          /\ configs[i].config.inputs[1] = Advice(0, nodes[configs[i].inputs[1]].out_dims)
          /\ configs[i].config.inputs[2] = Fixed(0, nodes[configs[i].inputs[2]].out_dims)
          /\ configs[i].config.output = Advice(1, OutDims(i))

\* The position of entry i in the log, and the entries configured before it.
LogPosition(i) == CHOOSE a \in 1..Len(meta.log) : meta.log[a][2] = i
PrevConfigured(i) == {meta.log[a][2] : a \in 1..(LogPosition(i) - 1)}
\* The entries configured before Lookup node i that hold a region for its operator.
Matching(i) == {k \in PrevConfigured(i) \cap LookupKeys : TableOpsOf(k) = <<nodes[i].op>>}
\* The entries configured before i: the most recently configured first, and by
\* descending node index.
ReverseConfigurationOrder(i) ==
    [a \in 1..(LogPosition(i) - 1) |-> meta.log[LogPosition(i) - a][2]]
DescendingKeyOrder(i) == Reverse(Ascending(PrevConfigured(i)))
UpToFirst(order, S) ==
    IF \A k \in 1..Len(order) : order[k] \notin S THEN order
    ELSE SubSeq(order, 1, SetMin({k \in 1..Len(order) : order[k] \in S}))

\* The scan for Lookup node i visited the earlier entries in this order up to the
\* first matching one, whose region the node holds; without a match the node holds a
\* region no earlier entry holds, sized by num_vars_lookup_op for its operator.
ScanFollows(scan, order) ==
    LET i == scan.node
    IN  /\ scan.visited = UpToFirst(order, Matching(i))
        /\ TableOpsOf(i) = <<nodes[i].op>>
        /\ IF Matching(i) # {}
           THEN /\ scan.visited[Len(scan.visited)] \in Matching(i)
                /\ configs[i].config = configs[scan.visited[Len(scan.visited)]].config
           ELSE /\ \A k \in PrevConfigured(i) \cap LookupKeys :
                       configs[k].config # configs[i].config
                /\ RegionOf(i).input.dims
                       = <<num_vars_lookup_op(bucketed_nodes, nodes[i].op)[1]>>

\* C19 as stated: with single_lookup enabled every Lookup node is configured by one
\* scan, which visits the earlier entries in reverse configuration order (the most
\* recently configured first) and reuses the first matching region, allocating one,
\* sized by num_vars_lookup_op, only without a match.
C19_ReverseConfigurationScan ==
    run_args.single_lookup =>
        /\ Len(meta.scans) = Len(LookupLog)
        /\ \A k \in 1..Len(meta.scans) :
               /\ meta.scans[k].node = LookupLog[k][2]
               /\ ScanFollows(meta.scans[k], ReverseConfigurationOrder(meta.scans[k].node))

\* C19 amended: the same, the scan visiting the earlier entries by descending node
\* index (the reverse key order of the configuration map).
C19_ReverseKeyScan ==
    run_args.single_lookup =>
        /\ Len(meta.scans) = Len(LookupLog)
        /\ \A k \in 1..Len(meta.scans) :
               /\ meta.scans[k].node = LookupLog[k][2]
               /\ ScanFollows(meta.scans[k], DescendingKeyOrder(meta.scans[k].node))

\* C19 witness: a scan has passed over an entry without a match and reused the region
\* of the next one, although the entry it passed over was configured earlier; and
\* another scan has found no match and allocated.
C19_Witness ==
    /\ Configured
    /\ run_args.single_lookup
    /\ \E k \in 1..Len(meta.scans) :
          LET v == meta.scans[k].visited
          IN  /\ Len(v) = 2
              /\ v[2] \in Matching(meta.scans[k].node)
              /\ LogPosition(v[1]) < LogPosition(v[2])
    /\ \E k \in 1..Len(meta.scans) : Matching(meta.scans[k].node) = {}

\* The columns configure has requested from the pool so far.
PolyColumns ==
    UNION {Range(configs[i].config.inputs) \cup {configs[i].config.output} : i \in PolyKeys}
LookupColumns ==
    UNION {{meta.lookups[k].input, meta.lookups[k].output} : k \in 1..Len(meta.lookups)}
OutputColumns ==
    UNION {{packed_outputs[k].inputs[1], packed_outputs[k].output} :
              k \in 1..Len(packed_outputs)}
    \cup UNION {{range_checks[k].input, range_checks[k].output} : k \in 1..Len(range_checks)}
RequestedColumns == PolyColumns \cup LookupColumns \cup OutputColumns
AdviceShapes == advice_shapes(bucketed_nodes, run_args, visibility)
FixedShapes == fixed_shapes(bucketed_nodes, visibility)

\* C22: every advice column configure requests (for the externals and the output of a
\* fused group, the input and output of a lookup region, the packing and range-check
\* regions) has an index below the length of advice_shapes(), and every fixed column
\* an index below the length of fixed_shapes().
C22_PoolSuffices ==
    \A c \in RequestedColumns :
        /\ c.col = "advice" => c.idx < Len(AdviceShapes)
        /\ c.col = "fixed" => c.idx < Len(FixedShapes)

----------------------------------------------------------------------------
\* Properties of layout (checked under SpecLayout)

\* The nodes that node i names as inputs, and those it depends on through any chain.
Deps(i) == Range(nodes[i].inputs) \cap DOMAIN nodes
RECURSIVE Closure(_)
Closure(S) ==
    LET T == S \cup UNION {Deps(x) : x \in S} IN IF T = S THEN S ELSE Closure(T)
Ancestors(i) == Closure(Deps(i))

\* C18: in the graph that assign_execution_buckets returned no Lookup node depends,
\* directly or through a chain of dependencies, on a Lookup node of its own bucket.
C18_LookupsIndependent ==
    \A i, j \in LookupNodes :
        j \in Ancestors(i) => EntryBucket(j) # EntryBucket(i)

\* C18 witness: a scheduled graph where a Lookup node depends on another Lookup node
\* only through a Poly node, and a Lookup node has two inputs of different buckets.
C18_Witness ==
    \E i, j \in LookupNodes, p \in PolyNodes :
        /\ j \in Deps(p) /\ p \in Deps(i) /\ j \notin Deps(i)
        /\ \E d \in Deps(i) : EntryBucket(d) # EntryBucket(p)
        /\ EntryBucket(i) = Some(EntryBucket(j)[1] + 1)


\* The entry that layout is about to process.
AtEntry == pc = "layout" /\ cursor <= Len(Entries)
CurrentEntry == configs[Entries[cursor]]
\* The non-constant nodes the entry names as inputs.
NonConstRefs(config) == {i \in Range(config.inputs) : nodes[i].opkind # "Const"}

Laid == pc = "laid" /\ outcome.status = "Ok"
\* The instance columns the seeded inputs are bound to.
InputSlots == IF visibility.input THEN 0..(NumInputs(bucketed_nodes) - 1) ELSE {}
CheckSlots == {laid.checks[k].instance : k \in 1..Len(laid.checks)}
InstanceShapes == instance_shapes(bucketed_nodes, outputs, visibility)

\* C11: right after seeding, public input i is bound to instance column i (a private
\* one to the supplied tensor); when layout returns, range check i has been laid out
\* on output i with instance column i if the inputs are private and (number of
\* inputs) + i if they are public; no column serves an input and a range check; and
\* column by column the shapes of instance_shapes() are those of the inputs, then
\* those of the outputs the range checks are paired with.
C11_InstanceSlots ==
    /\ (pc = "layout" /\ cursor = 1) =>
           \A i \in 0..(NumInputs(bucketed_nodes) - 1) :
               results[i] = IF visibility.input THEN Instance(i) ELSE InputTensor(i)
    /\ Laid =>
           /\ Len(laid.checks) = Len(range_checks)
           /\ \A k \in 1..Len(laid.checks) :
                  /\ laid.checks[k].check = k - 1
                  /\ laid.checks[k].output = laid.outputs[k]
                  /\ laid.checks[k].instance =
                        (IF visibility.input THEN NumInputs(bucketed_nodes) ELSE 0) + (k - 1)
                  /\ InstanceShapes[laid.checks[k].instance + 1] = OutDimsOf(k)
           /\ InputSlots \cap CheckSlots = {}
           /\ InputSlots \cup CheckSlots = 0..(Len(InstanceShapes) - 1)
           /\ \A i \in InputSlots :
                  InstanceShapes[i + 1] = input_shapes(bucketed_nodes)[i + 1]

\* C11 witness: layout has returned with public inputs and outputs on a model of two
\* inputs and two outputs; the second range check is on instance column 3.
C11_Witness ==
    /\ Laid
    /\ visibility.input /\ visibility.output
    /\ NumInputs(bucketed_nodes) = 2
    /\ Len(laid.checks) = 2
    /\ laid.checks[2].instance = 3

\* C12: when the layout of a region (fused Poly, Lookup, packing or range check) fails,
\* layout has returned an error and no success, and no region is laid out after the
\* failing one.
C12_RegionErrorsReturned ==
    \A k \in 1..Len(laid.regions) :
        laid.regions[k].result = "Err" =>
            /\ pc = "laid"
            /\ outcome.status = "Err"
            /\ k = Len(laid.regions)

\* layout is at a Poly entry, or a Lookup entry of one input, that names a non-constant
\* node without a result.
MissingReference ==
    /\ AtEntry
    /\ CurrentEntry.kind \in {"Poly", "Lookup"}
    /\ CurrentEntry.kind = "Lookup" => Len(CurrentEntry.inputs) = 1
    /\ ~(NonConstRefs(CurrentEntry) \subseteq DOMAIN results)
\* layout has processed every entry and a model output has no result.
MissingOutput ==
    /\ pc = "layout"
    /\ cursor > Len(Entries)
    /\ \E k \in 1..Len(outputs) : outputs[k] \notin DOMAIN results

\* C14: when layout meets a Poly or Lookup entry that names a non-constant node absent
\* from the results map, or a model output without a result, its next step returns an
\* error value of the missing-node kind.
C14_MissingResultIsError ==
    [][(MissingReference \/ MissingOutput)
        => /\ pc' = "laid"
           /\ outcome'.status = "Err"
           /\ outcome'.error[1] = "MissingNode"]_vars

\* C20: at a Lookup entry whose input list has not exactly one element layout_config
\* fails with InvalidLookupInputs: no region layout is invoked and no result is
\* recorded; at an Input or Const entry it yields no result: the results map and what
\* has been laid out stay as they are and layout goes on to the next entry.
C20_InvalidLookupInputs ==
    [][/\ (AtEntry /\ CurrentEntry.kind = "Lookup" /\ Len(CurrentEntry.inputs) # 1)
           => /\ pc' = "laid"
              /\ outcome' = Err(<<"InvalidLookupInputs">>)
              /\ results' = results
              /\ laid' = laid
       /\ (AtEntry /\ CurrentEntry.kind \in {"Input", "Const"})
           => /\ results' = results
              /\ laid' = laid
              /\ outcome' = outcome
              /\ pc' = pc
              /\ cursor' = cursor + 1]_vars

\* C20 witness: layout has passed an Input entry, leaving the seeded results map as it
\* was, and has failed with InvalidLookupInputs at a Lookup entry of two inputs.
C20_Witness ==
    /\ pc = "laid"
    /\ outcome = Err(<<"InvalidLookupInputs">>)
    /\ cursor > 1
    /\ configs[Entries[1]].kind = "Input"
    /\ Len(configs[Entries[cursor]].inputs) = 2
    /\ results = SeedResults(NumInputs(bucketed_nodes), visibility.input)
    /\ laid.regions = <<>>

\* The tensor layout is given for the k-th model input (k from 1).
SuppliedInput(k) == IF visibility.input THEN Instance(k - 1) ELSE InputTensor(k - 1)
\* The position (from 1) of Input node d among the model inputs.
InputPosition(d) ==
    CHOOSE k \in 1..Len(ModelInputs(bucketed_nodes)) : ModelInputs(bucketed_nodes)[k] = d

\* C21: once the results map is seeded, the tensor of the i-th model input (its
\* instance column when the inputs are public) is recorded under the node index of
\* the i-th Input node; and an entry that names an Input node finds that tensor there.
C21_InputsUnderNodeIndex ==
    /\ (pc = "layout" /\ cursor = 1) =>
           \A k \in 1..Len(ModelInputs(bucketed_nodes)) :
               /\ ModelInputs(bucketed_nodes)[k] \in DOMAIN results
               /\ results[ModelInputs(bucketed_nodes)[k]] = SuppliedInput(k)
    /\ (AtEntry /\ CurrentEntry.kind \in {"Poly", "Lookup"}) =>
           \A d \in NonConstRefs(CurrentEntry) :
               nodes[d].opkind = "Input" =>
                   /\ d \in DOMAIN results
                   /\ results[d] = SuppliedInput(InputPosition(d))

\* C2: when layout comes to a Poly or Lookup entry, every non-constant node the entry
\* names as an input is in the results map.
C2_DependenciesPresent ==
    (AtEntry /\ CurrentEntry.kind \in {"Poly", "Lookup"})
        => NonConstRefs(CurrentEntry) \subseteq DOMAIN results

====
